---- MODULE Spec2Model ----
(***************************************************************************)
(* Model of src/bot.py: the poll cycle notify_if_needed (ETA               *)
(* reconciliation, threshold scheduling, per-day sent markers, the boss    *)
(* notification) together with the state file it loads and saves, the      *)
(* time parser _to_seconds, the extractor merc_lord_block, the transport   *)
(* _tg_post / tg_send, and the loop of main.                               *)
(*                                                                         *)
(* Instants are whole seconds on the UTC+3 wall clock, counted from        *)
(* 00:00:00 of day 0; the calendar day of an instant t is t \div 86400.    *)
(* The three clock reads of one cycle (lines 297, 318, 398) return the     *)
(* same instant.                                                           *)
(***************************************************************************)
EXTENDS Integers, Sequences, FiniteSets, TLC

VARIABLES
    now,         \* the wall clock (UTC+3) read by the last cycle
    state_file,  \* the content of the state file (notify_state.json)
    state,       \* the dict `state` of the last cycle when it ended or raised
    inp,         \* what the last cycle was given: pages, failure point, clock step
    sent,        \* the notifications the last cycle dispatched through tg_send
    fired,       \* per kind, every notification dispatched so far, in order
    cycles,      \* number of cycles run so far
    thresholds,  \* the list thresholds_sec that notify_if_needed is called with
    results,     \* per kind, what every tg_send call so far returned, in order
    raised,      \* where the last cycle raised, "none" when it returned
    proc,        \* the process running main: position, LOOP_SECONDS, deadline
    text,        \* the duration text handed to _to_seconds
    parsed       \* what _to_seconds did with it

vars ==
    <<now, state_file, state, inp, sent, fired, cycles, thresholds, results,
      raised, proc, text, parsed>>

----------------------------------------------------------------------------
(* Program constants *)

\* dict.get of an absent key, an Optional that is None
None == -1

\* datetime.replace(second=0): a minute
Minute == 60

\* _round_to_minute adds timedelta(seconds=30)
HalfMinute == 30

\* the drift at which a stored prediction is replaced
DriftTolerance == 120

\* battle_dt = lord_dt + timedelta(hours=1)
Hour == 3600

\* .date(): seconds in a calendar day
DaySeconds == 86400

\* thresholds_sec as _run_once passes it
ThresholdsSec == <<91 * 60, 46 * 60, 16 * 60>>

Beasts == {"dragon", "serpent"}

Kinds == Beasts \cup {"lord"}

----------------------------------------------------------------------------
(* Bounds of the model *)

\* cycles per behaviour
MaxCycles == 3

\* the clock before the first cycle: 23:30:00 of day 0
StartTime == DaySeconds - 30 * Minute

----------------------------------------------------------------------------
(* Pure helpers *)

Abs(x) == IF x < 0 THEN -x ELSE x

Range(s) == {s[i] : i \in DOMAIN s}

RECURSIVE SetMin(_)
SetMin(S) ==
    LET x == CHOOSE y \in S : TRUE
    IN  IF S = {x} THEN x
        ELSE LET m == SetMin(S \ {x}) IN IF x < m THEN x ELSE m

RECURSIVE SetMax(_)
SetMax(S) ==
    LET x == CHOOSE y \in S : TRUE
    IN  IF S = {x} THEN x
        ELSE LET m == SetMax(S \ {x}) IN IF x > m THEN x ELSE m

\* sorted(thresholds_sec): ascending, duplicates kept
RECURSIVE Sorted(_)
Sorted(s) ==
    IF Len(s) = 0 THEN <<>>
    ELSE LET m == SetMin(Range(s))
             i == CHOOSE j \in DOMAIN s : s[j] = m
             rest == [k \in 1..(Len(s) - 1) |-> IF k < i THEN s[k] ELSE s[k + 1]]
         IN  <<m>> \o Sorted(rest)

\* datetime.now(MSK).date().isoformat(): the calendar day of an instant
DateOf(t) == t \div DaySeconds

\* dt.isoformat(timespec="seconds"): the calendar fields of the instant
IsoFormat(dt) == [date |-> dt \div DaySeconds, time |-> dt % DaySeconds]

\* datetime.fromisoformat(text), with tzinfo MSK
FromIsoFormat(iso) == iso.date * DaySeconds + iso.time

\* RoundToMinute with the rule altered: the seconds are dropped without adding 30 s first
RoundToMinute_Truncating(dt) == (dt \div Minute) * Minute

\* _round_to_minute: add 30 s, then drop the seconds
RoundToMinute(dt) == ((dt + HalfMinute) \div Minute) * Minute

----------------------------------------------------------------------------
(* The time parser: _to_seconds, lines 29-47 *)

\* A text is a sequence of characters. "^2" stands for the character
\* SUPERSCRIPT TWO, for which str.isdigit() is true and which int() rejects.
Decimals == <<"0", "1", "2", "3", "4", "5", "6", "7", "8", "9">>

\* a character int() reads as a digit
IsDecimal(ch) == \E i \in DOMAIN Decimals : Decimals[i] = ch

DecimalValue(ch) == (CHOOSE i \in DOMAIN Decimals : Decimals[i] = ch) - 1

\* ch.isdigit()
IsDigit(ch) == IsDecimal(ch) \/ ch = "^2"

IsSpace(ch) == ch = " "

\* str.strip()
RECURSIVE Strip(_)
Strip(s) ==
    IF s = <<>> THEN s
    ELSE IF IsSpace(Head(s)) THEN Strip(Tail(s))
    ELSE IF IsSpace(s[Len(s)]) THEN Strip(SubSeq(s, 1, Len(s) - 1))
    ELSE s

\* str.split(':'): the pieces between the colons, empty ones included
RECURSIVE Split(_)
Split(s) ==
    IF \A i \in DOMAIN s : s[i] # ":" THEN <<s>>
    ELSE LET i == CHOOSE j \in DOMAIN s :
                    s[j] = ":" /\ \A k \in 1..(j - 1) : s[k] # ":"
         IN  <<SubSeq(s, 1, i - 1)>> \o Split(SubSeq(s, i + 1, Len(s)))

\* whether int(piece) returns: decimal digits, spaces around them allowed
IntOk(piece) ==
    LET u == Strip(piece)
    IN  u # <<>> /\ \A i \in DOMAIN u : IsDecimal(u[i])

\* the value of a sequence of decimal digits
RECURSIVE DigitsValue(_)
DigitsValue(u) ==
    IF u = <<>> THEN 0
    ELSE 10 * DigitsValue(SubSeq(u, 1, Len(u) - 1)) + DecimalValue(u[Len(u)])

\* int(piece)
IntOf(piece) == DigitsValue(Strip(piece))

\* what a call of _to_seconds does: it raises, or returns value (None or a
\* number)
Returns(v) == [done |-> TRUE, raised |-> FALSE, value |-> v]

Raises == [done |-> TRUE, raised |-> TRUE, value |-> None]

NotParsed == [done |-> FALSE, raised |-> FALSE, value |-> None]

\* lines 37-38: the digit characters of the text read as one number
DigitFallback(t) ==
    LET t_digits == SelectSeq(t, IsDigit)
    IN  IF t_digits = <<>> THEN Returns(None)
        ELSE IF \A i \in DOMAIN t_digits : IsDecimal(t_digits[i])
             THEN Returns(DigitsValue(t_digits))
             ELSE Raises

\* _to_seconds
ToSeconds(txt) ==
    IF txt = <<>> THEN Returns(None)
    ELSE
      LET t == Strip(txt)
          parts == SelectSeq(Split(t), LAMBDA piece : piece # <<>>)
      IN  IF \E i \in DOMAIN parts : ~IntOk(parts[i]) THEN DigitFallback(t)
          ELSE IF Len(parts) = 3
               THEN Returns(IntOf(parts[1]) * Hour + IntOf(parts[2]) * Minute
                            + IntOf(parts[3]))
          ELSE IF Len(parts) = 2
               THEN Returns(IntOf(parts[1]) * Minute + IntOf(parts[2]))
          ELSE IF Len(parts) = 1 THEN Returns(IntOf(parts[1]))
          ELSE Returns(None)

----------------------------------------------------------------------------
(* The state dict and the state file *)

ThrSet == Range(ThresholdsSec)

\* lists that notify_if_needed may be called with instead: the default of
\* its parameter, and lists in any order, with repetitions
ThresholdLists ==
    {<<3600>>} \cup [1..3 -> {5400, 2400, 120}]

\* every threshold that may occur in a marker key "<beast>_<thr>"
MarkerThresholds == ThrSet \cup UNION {Range(l) : l \in ThresholdLists}

\* no "<beast>_event_iso" entry
NoIso == [date |-> None, time |-> None]

\* {}: no key present. event_day[b], event_iso[b] are "<b>_event_day" and
\* "<b>_event_iso", thr[b][t] is the marker "<b>_<t>", lord is the marker "lord"
EmptyState ==
    [event_day |-> [b \in Beasts |-> None],
     event_iso |-> [b \in Beasts |-> NoIso],
     thr       |-> [b \in Beasts |-> [t \in MarkerThresholds |-> None]],
     lord      |-> None]

\* The state file: exists tells whether the path exists; form is "map" when
\* the content is a JSON object, whose entries json holds, "nonmap" when it
\* is another JSON value (a list, a number, a string, null), "garbage" when
\* it cannot be opened or is not JSON.
NoFile == [exists |-> FALSE, form |-> "map", json |-> EmptyState]

\* json.load returns a value that is not a dict
NonMap(file) == file.exists /\ file.form = "nonmap"

\* _load_state: {} when the file does not exist or open/json.load raises,
\* else the JSON content; for a non-map content the dict returned here
\* stands for a value without .get, see NotifyIfNeeded
LoadState(file) ==
    IF ~file.exists THEN EmptyState
    ELSE IF file.form = "garbage" THEN EmptyState
    ELSE file.json

\* _save_state: the whole dict replaces the file's content
SaveState(data) == [exists |-> TRUE, form |-> "map", json |-> data]

\* whether fromisoformat accepts the stored text
IsIsoText(iso) == iso.date >= 0 /\ iso.time >= 0 /\ iso.time < DaySeconds

\* lines 336-343: the prediction recorded for today, or None
StoredEventDt(st, beast, today) ==
    IF st.event_day[beast] = today /\ st.event_iso[beast] # NoIso
    THEN IF IsIsoText(st.event_iso[beast])
         THEN FromIsoFormat(st.event_iso[beast])
         ELSE None
    ELSE None

----------------------------------------------------------------------------
(* The countdown kinds: lines 322-379 *)

\* Drifted with the rule altered: a drift of exactly the tolerance is still ignored
Drifted_Strict(event_dt, proposed_event_dt) ==
    Abs(event_dt - proposed_event_dt) > DriftTolerance

\* line 351: the stored prediction and the proposed one disagree too much
Drifted(event_dt, proposed_event_dt) ==
    Abs(event_dt - proposed_event_dt) >= DriftTolerance

\* Past with the rule altered: the check is left out
Past_Unchecked(sec_left) == FALSE

\* lines 358 and 401: the predicted instant is not in the future
Past(sec_left) == sec_left <= 0

\* line 361: the thresholds at or above sec_left, in ascending order
Due(thresholds_sorted, sec_left) ==
    SelectSeq(thresholds_sorted, LAMBDA thr : sec_left <= thr)

\* ThrToSend with the rule altered: the largest due threshold
ThrToSend_Largest(due) == SetMax(Range(due))

\* line 365
ThrToSend(due) == SetMin(Range(due))

\* AlreadySent with the rule altered: the marker is not consulted
AlreadySent_Ignored(st, beast, thr_to_send, today) == FALSE

\* line 367: the marker of the selected threshold is today's
AlreadySent(st, beast, thr_to_send, today) == st.thr[beast][thr_to_send] = today

\* Marked with the rule altered: the marker is not written
Marked_Forgotten(st, beast, thr_to_send, today) == st

\* line 379: the marker of the notified threshold is set to today
Marked(st, beast, thr_to_send, today) ==
    [st EXCEPT !.thr[beast][thr_to_send] = today]

\* lines 346-354: the prediction the cycle works with
Reconcile(st, beast, sec, now_msk, today) ==
    LET proposed_event_dt == RoundToMinute(now_msk + sec)
        prior == StoredEventDt(st, beast, today)
    IN  IF prior = None THEN proposed_event_dt
        ELSE IF Drifted(prior, proposed_event_dt) THEN proposed_event_dt
        ELSE prior

\* lines 346-354: the state dict after reconciliation
Recorded(st, beast, sec, now_msk, today) ==
    LET prior == StoredEventDt(st, beast, today)
        proposed_event_dt == RoundToMinute(now_msk + sec)
        event_dt == Reconcile(st, beast, sec, now_msk, today)
    IN  IF prior = None \/ Drifted(prior, proposed_event_dt)
        THEN [st EXCEPT !.event_day[beast] = today,
                        !.event_iso[beast] = IsoFormat(event_dt)]
        ELSE st

\* Positive with the rule altered: a countdown of 0 is processed
Positive_Unchecked(sec) == sec # None

\* lines 323-327: the loop body goes on to line 329 for this countdown
Positive(sec) == sec # None /\ sec > 0

\* one pass of the loop body for `beast`; acc is [state, sent]
ProcessBeast(acc, beast, sec, now_msk, today, thresholds_sorted) ==
    IF ~Positive(sec) THEN acc
    ELSE
      LET event_dt == Reconcile(acc.state, beast, sec, now_msk, today)
          st1 == Recorded(acc.state, beast, sec, now_msk, today)
          sec_left == event_dt - now_msk
          due == Due(thresholds_sorted, sec_left)
      IN  IF Past(sec_left) THEN [acc EXCEPT !.state = st1]
          ELSE IF due = <<>> THEN [acc EXCEPT !.state = st1]
          ELSE IF AlreadySent(st1, beast, ThrToSend(due), today)
               THEN [acc EXCEPT !.state = st1]
          ELSE [state |-> Marked(st1, beast, ThrToSend(due), today),
                sent  |-> acc.sent \cup
                          {[kind |-> beast, thr |-> ThrToSend(due),
                            sec_left |-> sec_left]}]

----------------------------------------------------------------------------
(* The boss: merc_lord_block and lines 390-410 *)

\* A card matched by card_re: lord tells whether lord_re matches its header
\* or body, when is the parsed timestamp (None when strptime rejects it),
\* city is normalize_city of the place named in the body ("" for None).
NoCity == ""

\* lines 184-206: the cards kept as candidates
Candidates(cards) ==
    SelectSeq(cards, LAMBDA c : c.lord /\ c.when # None /\ c.city # NoCity)

\* lines 208-222
MercLordBlock(cards, today) ==
    LET candidates == Candidates(cards)
        todays == SelectSeq(candidates, LAMBDA c : DateOf(c.when) = today)
    IN  IF candidates = <<>> \/ todays = <<>>
        THEN [city |-> NoCity, when_iso |-> NoIso]
        ELSE LET best_dt == SetMax({todays[i].when : i \in DOMAIN todays})
                 i == CHOOSE j \in DOMAIN todays :
                        /\ todays[j].when = best_dt
                        /\ \A k \in 1..(j - 1) : todays[k].when # best_dt
             IN  [city |-> todays[i].city, when_iso |-> IsoFormat(best_dt)]

\* lines 390-410; acc is [state, sent]
ProcessLord(acc, merc, now_msk, today) ==
    IF merc.when_iso # NoIso /\ acc.state.lord # today
    THEN LET lord_dt == FromIsoFormat(merc.when_iso)
             battle_dt == lord_dt + Hour
             sec_left == battle_dt - now_msk
         IN  IF Past(sec_left)
             THEN [acc EXCEPT !.state.lord = today]
             ELSE [state |-> [acc.state EXCEPT !.lord = today],
                   sent  |-> acc.sent \cup
                             {[kind |-> "lord", thr |-> None,
                               sec_left |-> sec_left]}]
    ELSE acc

----------------------------------------------------------------------------
(* The transport: _tg_post and tg_send, lines 225-268 *)

\* retries = 3
Retries == 3

\* the recipients CHAT_IDS names
ChatIds == {"chat1", "chat2"}

\* What requests.post does at one attempt: "ok" is a reply whose JSON says
\* ok, "rejected" a reply below 500 other than 429 whose JSON says not ok,
\* "429" and "5xx" replies with these status codes, "exc" a
\* RequestException.
Responses == {"ok", "rejected", "429", "5xx", "exc"}

\* _tg_post from attempt number `attempt` on (1..Retries): whether the
\* returned dict says ok
RECURSIVE TgPost(_, _)
TgPost(responses, attempt) ==
    IF attempt > Retries THEN FALSE
    ELSE CASE responses[attempt] = "429" -> TgPost(responses, attempt + 1)
           [] responses[attempt] = "5xx" -> TgPost(responses, attempt + 1)
           [] responses[attempt] = "exc" ->
                IF attempt = Retries THEN FALSE
                ELSE TgPost(responses, attempt + 1)
           [] responses[attempt] = "ok" -> TRUE
           [] OTHER -> FALSE

\* tg_send: one _tg_post per recipient; net gives, per recipient, what the
\* attempts to reach it meet during the cycle
TgSend(net) == [cid \in ChatIds |-> TgPost(net[cid], 1)]

\* a transport that delivers at the first attempt
Reliable == [cid \in ChatIds |-> <<"ok", "ok", "ok">>]

----------------------------------------------------------------------------
(* One cycle: notify_if_needed, lines 285-412 *)

\* where a cycle may raise: nowhere, in the /monastic fetch (line 308), in
\* the /events fetch (line 383)
FailPoints == {"none", "monastic", "events"}

\* lines 322-379: dragon, then serpent
BeastLoop(acc, dragon_sec, serpent_sec, now_msk, today, thresholds_sorted) ==
    ProcessBeast(
        ProcessBeast(acc, "dragon", dragon_sec, now_msk, today, thresholds_sorted),
        "serpent", serpent_sec, now_msk, today, thresholds_sorted)

\* The cycle run at instant t on the file content `file`:
\* state is the dict when the cycle ended or raised, saved tells whether
\* line 412 was reached, sent is what went through tg_send, raised is where
\* the cycle raised: "monastic" at line 308, "events" at line 383, "state"
\* at the first state.get (line 337 or 390) on a loaded value that is not a
\* dict, "none" when it returned.
NotifyIfNeeded(file, t, page, thresholds_sec) ==
    LET loaded == [state |-> LoadState(file), sent |-> {}]
        today == DateOf(t)
        after_beasts ==
            BeastLoop(loaded, page.dragon, page.serpent, t, today,
                      Sorted(thresholds_sec))
        merc == MercLordBlock(page.cards, today)
        after_lord == ProcessLord(after_beasts, merc, t, today)
    IN  CASE page.fail = "monastic" ->
               [state |-> loaded.state, sent |-> {}, saved |-> FALSE,
                raised |-> "monastic"]
          [] /\ page.fail # "monastic" /\ NonMap(file)
             /\ (Positive(page.dragon) \/ Positive(page.serpent)) ->
               [state |-> loaded.state, sent |-> {}, saved |-> FALSE,
                raised |-> "state"]
          [] page.fail = "events" ->
               [state |-> after_beasts.state, sent |-> after_beasts.sent,
                saved |-> FALSE, raised |-> "events"]
          [] /\ page.fail = "none" /\ NonMap(file)
             /\ ~(Positive(page.dragon) \/ Positive(page.serpent))
             /\ merc.when_iso # NoIso ->
               [state |-> loaded.state, sent |-> {}, saved |-> FALSE,
                raised |-> "state"]
          [] OTHER ->
               [state |-> after_lord.state, sent |-> after_lord.sent,
                saved |-> TRUE, raised |-> "none"]

----------------------------------------------------------------------------
(* The cycles of a run: main, lines 430-447, calling _run_once *)

\* what a cycle is given: the clock's advance since the last cycle, the two
\* countdowns monastic_block extracts, the cards of the events page, and
\* where the cycle raises
Page(step, dragon_sec, serpent_sec, cards, fail) ==
    [step |-> step, dragon |-> dragon_sec, serpent |-> serpent_sec,
     cards |-> cards, fail |-> fail]

NoPage == Page(0, None, None, <<>>, "none")

\* a boss card announcing `when`, in a known city
LordCard(when) == [lord |-> TRUE, when |-> when, city |-> "Grand"]

\* fired, extended by what a cycle sent on `today`
Log(log, today, out, saved) ==
    [k \in Kinds |->
        IF \E n \in out : n.kind = k
        THEN Append(log[k],
                    [day |-> today, saved |-> saved,
                     thr |-> (CHOOSE n \in out : n.kind = k).thr])
        ELSE log[k]]

\* results, extended by what the tg_send calls of a cycle that dispatched
\* `out` returned
Delivered(log, out, net, today) ==
    [k \in Kinds |->
        IF \E n \in out : n.kind = k
        THEN Append(log[k],
                    [day |-> today,
                     thr |-> (CHOOSE n \in out : n.kind = k).thr,
                     ok |-> TgSend(net)])
        ELSE log[k]]

\* the default of TICK_SECONDS
TickSeconds == 60

\* The process: pc is "main" before line 431, "loop" inside the while loop,
\* "exited" when main has returned, "crashed" when an exception has left
\* main; end_ts is the deadline of line 437; nap is the sleep of line 447
\* that precedes the next pass of the loop.
Looping ==
    [pc |-> "loop", loop_seconds |-> DaySeconds,
     end_ts |-> StartTime + DaySeconds, nap |-> 0]

Init ==
    /\ now = StartTime
    /\ state_file = NoFile
    /\ state = EmptyState
    /\ inp = NoPage
    /\ sent = {}
    /\ fired = [k \in Kinds |-> <<>>]
    /\ cycles = 0
    /\ thresholds = ThresholdsSec
    /\ results = [k \in Kinds |-> <<>>]
    /\ raised = "none"
    /\ proc = Looping
    /\ text = <<>>
    /\ parsed = NotParsed

\* _run_once: one call of notify_if_needed, `step` seconds after the last
\* one, over the transport net
RunCycle(step, dragon_sec, serpent_sec, cards, fail, net) ==
    \E r \in {NotifyIfNeeded(state_file, now + step,
                             Page(step, dragon_sec, serpent_sec, cards, fail),
                             thresholds)} :
       /\ cycles' = cycles + 1
       /\ now' = now + step
       /\ inp' = Page(step, dragon_sec, serpent_sec, cards, fail)
       /\ state' = r.state
       /\ sent' = r.sent
       /\ raised' = r.raised
       /\ state_file' = IF r.saved /\ ~NonMap(state_file)
                        THEN SaveState(r.state)
                        ELSE state_file
       /\ fired' = Log(fired, DateOf(now + step), r.sent, r.saved)
       /\ results' = Delivered(results, r.sent, net, DateOf(now + step))
       /\ UNCHANGED <<thresholds, text, parsed>>

\* a pass of the loop of main that is not the last one: the exception of a
\* cycle is caught at line 441
CycleVia(step, dragon_sec, serpent_sec, cards, fail, net) ==
    /\ RunCycle(step, dragon_sec, serpent_sec, cards, fail, net)
    /\ UNCHANGED proc

\* a cycle over a transport that delivers
Cycle(step, dragon_sec, serpent_sec, cards, fail) ==
    CycleVia(step, dragon_sec, serpent_sec, cards, fail, Reliable)

\* a cycle that reaches line 412
RunOnce(step, dragon_sec, serpent_sec, cards) ==
    Cycle(step, dragon_sec, serpent_sec, cards, "none")

\* a cycle whose /monastic fetch raises (line 308): the prophecy page is not
\* parsed and the events page, which holds `cards`, is not fetched
MonasticFetchFails(step, cards) ==
    Cycle(step, None, None, cards, "monastic")

\* a cycle whose /events fetch raises (line 383), after the beast loop
EventsFetchFails(step, dragon_sec, serpent_sec) ==
    Cycle(step, dragon_sec, serpent_sec, <<>>, "events")

----------------------------------------------------------------------------
(* Spec: cycles on arbitrary pages, with fetch failures *)

\* the poll cadence: a tick and a half later, half an hour later
Steps == {90, 30 * Minute}

\* countdowns the prophecy page may show
DragonSecs == {None, 30, 15 * Minute, 45 * Minute}

SerpentSecs == {None, 15 * Minute}

\* events pages with a boss card: one whose battle is over at StartTime, one
\* whose battle is still to come
LordCards ==
    {<<LordCard(StartTime - 90 * Minute)>>, <<LordCard(StartTime - 30 * Minute)>>}

\* a cycle whose events page shows no boss card
ProphecyPoll ==
    /\ cycles < MaxCycles
    /\ \E step \in Steps, d \in DragonSecs, s \in SerpentSecs :
          RunOnce(step, d, s, <<>>)

\* a cycle whose events page shows a boss card
LordPoll ==
    /\ cycles < MaxCycles
    /\ \E step \in Steps, s \in SerpentSecs, c \in LordCards :
          RunOnce(step, None, s, c)

\* the last cycle run again at once: same clock, same pages
Rerun ==
    /\ cycles > 0 /\ cycles < MaxCycles
    /\ RunOnce(0, inp.dragon, inp.serpent, inp.cards)

MonasticFailure ==
    /\ cycles < MaxCycles
    /\ \E step \in Steps, c \in LordCards : MonasticFetchFails(step, c)

EventsFailure ==
    /\ cycles < MaxCycles
    /\ \E step \in Steps, d \in DragonSecs, s \in SerpentSecs :
          EventsFetchFails(step, d, s)

Next ==
    ProphecyPoll \/ LordPoll \/ Rerun \/ MonasticFailure \/ EventsFailure

Spec == Init /\ [][Next]_vars

----------------------------------------------------------------------------
(* SpecDrift: cycles a minute or a second apart whose countdowns imply    *)
(* arrivals a few seconds to two minutes off the recorded prediction       *)

DriftSteps == {1, Minute}

DriftSecs == {15 * Minute, 15 * Minute + 29, 15 * Minute + 30, 15 * Minute + 70}

DriftPoll ==
    /\ cycles < MaxCycles
    /\ \E step \in DriftSteps, d \in DriftSecs, s \in {None, 15 * Minute + 30} :
          RunOnce(step, d, s, <<>>)

NextDrift == DriftPoll

SpecDrift == Init /\ [][NextDrift]_vars

----------------------------------------------------------------------------
(* SpecOccurrence: one occurrence per kind. The first cycle sights the     *)
(* countdowns; each later cycle sees them shrunk by the time elapsed, up   *)
(* to a re-measurement lag, until the arrival, after which the page shows  *)
(* no countdown for the kind.                                              *)

OccurrenceSteps == {90, 30 * Minute, 45 * Minute}

Lags == {0, 20}

SightedDragon == {45 * Minute, 50 * Minute, 90 * Minute}

SightedSerpent == {None, 90 * Minute}

\* the countdown `elapsed` seconds later
Shrunk(sec, elapsed) ==
    IF sec = None \/ sec - elapsed <= 0 THEN None ELSE sec - elapsed

Sighting ==
    /\ cycles = 0 /\ cycles < MaxCycles
    /\ \E step \in OccurrenceSteps, d \in SightedDragon, s \in SightedSerpent :
          RunOnce(step, d, s, <<>>)

Repoll ==
    /\ cycles > 0 /\ cycles < MaxCycles
    /\ \E step \in OccurrenceSteps, lag \in Lags :
          RunOnce(step, Shrunk(inp.dragon, step + lag),
                  Shrunk(inp.serpent, step + lag), <<>>)

NextOccurrence == Sighting \/ Repoll

SpecOccurrence == Init /\ [][NextOccurrence]_vars

----------------------------------------------------------------------------
(* SpecChoice: notify_if_needed called with a threshold list of any order  *)
(* and countdowns above, between and below the thresholds                  *)

ChoiceSteps == {40, 20 * Minute}

ChoiceSecs == {None, 0, 100, 2300, 2500, 6000}

InitChoice ==
    /\ now = StartTime
    /\ state_file = NoFile
    /\ state = EmptyState
    /\ inp = NoPage
    /\ sent = {}
    /\ fired = [k \in Kinds |-> <<>>]
    /\ cycles = 0
    /\ thresholds \in ThresholdLists
    /\ results = [k \in Kinds |-> <<>>]
    /\ raised = "none"
    /\ proc = Looping
    /\ text = <<>>
    /\ parsed = NotParsed

ChoicePoll ==
    /\ cycles < MaxCycles
    /\ \E step \in ChoiceSteps, d \in ChoiceSecs : RunOnce(step, d, None, <<>>)

NextChoice == ChoicePoll

SpecChoice == InitChoice /\ [][NextChoice]_vars

----------------------------------------------------------------------------
(* SpecCards: one cycle on an events page with up to MaxCards cards        *)

\* cards on one events page
MaxCards == 3

\* boss cards stamped 22:00 and 23:00 of day 0 that name a known city, one
\* stamped 23:20 whose body names no known city, one stamped 00:10 of day 1,
\* a card that is not about the boss, and a boss card whose timestamp
\* strptime rejects
CardPool ==
    {[lord |-> TRUE,  when |-> 22 * Hour,              city |-> "Grand"],
     [lord |-> TRUE,  when |-> 23 * Hour,              city |-> "Norlung"],
     [lord |-> TRUE,  when |-> 23 * Hour + 20 * Minute, city |-> NoCity],
     [lord |-> TRUE,  when |-> DaySeconds + 10 * Minute, city |-> "Grand"],
     [lord |-> FALSE, when |-> 23 * Hour + 25 * Minute, city |-> "Grand"],
     [lord |-> TRUE,  when |-> None,                   city |-> "Grand"]}

CardLists == UNION {[1..n -> CardPool] : n \in 0..MaxCards}

\* the first cycle, on any events page, before or after midnight
CardsPoll ==
    /\ cycles = 0
    /\ \E step \in Steps, c \in CardLists : RunOnce(step, None, None, c)

NextCards == CardsPoll

SpecCards == Init /\ [][NextCards]_vars

----------------------------------------------------------------------------
(* SpecDelivery: cycles whose dispatches meet a failing transport          *)

\* countdowns of the dragon, a boss card whose battle is still to come
DeliverySecs == {None, 15 * Minute}

DeliveryCards == {<<>>, <<LordCard(StartTime + 30 * Minute)>>}

\* a transport that delivers, one that needs retries, one that delivers to
\* one recipient only, and transports that fail for every recipient
Networks ==
    {Reliable,
     [cid \in ChatIds |-> <<"429", "5xx", "ok">>],
     [cid \in ChatIds |->
         IF cid = "chat1" THEN <<"exc", "exc", "exc">> ELSE <<"ok", "ok", "ok">>],
     [cid \in ChatIds |-> <<"5xx", "429", "5xx">>],
     [cid \in ChatIds |->
         IF cid = "chat1" THEN <<"exc", "5xx", "exc">>
         ELSE <<"rejected", "ok", "ok">>]}

DeliveryPoll ==
    /\ cycles < MaxCycles
    /\ \E step \in Steps, d \in DeliverySecs, c \in DeliveryCards, net \in Networks :
          CycleVia(step, d, None, c, "none", net)

NextDelivery == DeliveryPoll

SpecDelivery == Init /\ [][NextDelivery]_vars

----------------------------------------------------------------------------
(* SpecCorrupt: cycles that start from an unusable state file              *)

\* an "<beast>_event_iso" entry that fromisoformat rejects
BadIso == [date |-> 0, time |-> DaySeconds]

\* a map whose dragon prediction of day 0 is no timestamp
BadPrediction ==
    [EmptyState EXCEPT !.event_day["dragon"] = DateOf(StartTime),
                       !.event_iso["dragon"] = BadIso]

CorruptFiles ==
    {NoFile,
     [exists |-> TRUE, form |-> "garbage", json |-> EmptyState],
     [exists |-> TRUE, form |-> "nonmap", json |-> EmptyState],
     [exists |-> TRUE, form |-> "map", json |-> BadPrediction]}

InitCorrupt ==
    /\ now = StartTime
    /\ state_file \in CorruptFiles
    /\ state = EmptyState
    /\ inp = NoPage
    /\ sent = {}
    /\ fired = [k \in Kinds |-> <<>>]
    /\ cycles = 0
    /\ thresholds = ThresholdsSec
    /\ results = [k \in Kinds |-> <<>>]
    /\ raised = "none"
    /\ proc = Looping
    /\ text = <<>>
    /\ parsed = NotParsed

CorruptPoll ==
    /\ cycles < MaxCycles
    /\ \E step \in Steps, d \in DeliverySecs, c \in DeliveryCards :
          RunOnce(step, d, None, c)

NextCorrupt == CorruptPoll

SpecCorrupt == InitCorrupt /\ [][NextCorrupt]_vars

----------------------------------------------------------------------------
(* SpecMain: main from its first line, with and without LOOP_SECONDS       *)

\* values of LOOP_SECONDS: unset (the default "0"), and two deadlines
LoopSeconds == {0, 100, 200}

\* how long a cycle takes up to its clock read
Durations == {5, 70}

Min(a, b) == IF a < b THEN a ELSE b

Max(a, b) == IF a > b THEN a ELSE b

InitMain ==
    /\ now = StartTime
    /\ state_file = NoFile
    /\ state = EmptyState
    /\ inp = NoPage
    /\ sent = {}
    /\ fired = [k \in Kinds |-> <<>>]
    /\ cycles = 0
    /\ thresholds = ThresholdsSec
    /\ results = [k \in Kinds |-> <<>>]
    /\ raised = "none"
    /\ proc \in {[pc |-> "main", loop_seconds |-> ls, end_ts |-> 0, nap |-> 0] :
                    ls \in LoopSeconds}
    /\ text = <<>>
    /\ parsed = NotParsed

\* lines 433-435: loop_seconds <= 0, one cycle outside any try
MainOnce ==
    /\ proc.pc = "main" /\ proc.loop_seconds <= 0
    /\ \E dur \in Durations, d \in DeliverySecs, fail \in FailPoints :
          RunCycle(dur, d, None, <<>>, fail, Reliable)
    /\ proc' = [proc EXCEPT !.pc = IF raised' = "none" THEN "exited"
                                   ELSE "crashed"]

\* line 437: the deadline is set
MainLoopEnter ==
    /\ proc.pc = "main" /\ proc.loop_seconds > 0
    /\ proc' = [proc EXCEPT !.pc = "loop", !.end_ts = now + proc.loop_seconds]
    /\ UNCHANGED <<now, state_file, state, inp, sent, fired, cycles,
                   thresholds, results, raised, text, parsed>>

\* lines 438-447: the sleep that precedes the pass, the cycle with its
\* exception caught, then the deadline check and the length of the next sleep
MainLoopPass ==
    /\ proc.pc = "loop" /\ cycles < MaxCycles
    /\ \E dur \in Durations, d \in DeliverySecs, fail \in FailPoints :
          RunCycle(proc.nap + dur, d, None, <<>>, fail, Reliable)
    /\ proc' = IF proc.end_ts - now' <= 0
               THEN [proc EXCEPT !.pc = "exited"]
               ELSE [proc EXCEPT
                       !.nap = Min(TickSeconds, Max(1, proc.end_ts - now'))]

NextMain == MainOnce \/ MainLoopEnter \/ MainLoopPass

SpecMain == InitMain /\ [][NextMain]_vars

----------------------------------------------------------------------------
(* SpecParser: _to_seconds applied to texts of up to MaxPieces pieces      *)
(* joined by colons                                                        *)

\* pieces per text
MaxPieces == 4

\* the pieces: numbers, an empty piece, letters, digits mixed with
\* letters, a digit after a space, a superscript digit
Pieces ==
    {<<>>, <<"1">>, <<"0", "7">>, <<"3", "0">>, <<"x">>, <<"5", "x">>,
     <<" ", "3">>, <<"^2">>}

\* ':'.join(pieces)
RECURSIVE Join(_)
Join(pieces) ==
    IF Len(pieces) = 0 THEN <<>>
    ELSE IF Len(pieces) = 1 THEN pieces[1]
    ELSE pieces[1] \o <<":">> \o Join(Tail(pieces))

Texts == {Join(ps) : ps \in UNION {[1..n -> Pieces] : n \in 0..MaxPieces}}

InitParser ==
    /\ now = StartTime
    /\ state_file = NoFile
    /\ state = EmptyState
    /\ inp = NoPage
    /\ sent = {}
    /\ fired = [k \in Kinds |-> <<>>]
    /\ cycles = 0
    /\ thresholds = ThresholdsSec
    /\ results = [k \in Kinds |-> <<>>]
    /\ raised = "none"
    /\ proc = Looping
    /\ text \in Texts
    /\ parsed = NotParsed

\* secs = _to_seconds(m.group('time'))
Parse ==
    /\ ~parsed.done
    /\ parsed' = ToSeconds(text)
    /\ UNCHANGED <<now, state_file, state, inp, sent, fired, cycles,
                   thresholds, results, raised, proc, text>>

NextParser == Parse

SpecParser == InitParser /\ [][NextParser]_vars

----------------------------------------------------------------------------
(* Readings of a state used by the properties below *)

Today == DateOf(now)

\* the last cycle ran the beast loop (its /monastic fetch did not raise)
LoopRan == cycles > 0 /\ inp.fail # "monastic"

\* the last cycle reached line 412
Completed == cycles > 0 /\ raised = "none"

\* the countdown the last cycle was given for a beast
SecOf(page, beast) == IF beast = "dragon" THEN page.dragon ELSE page.serpent

\* the last cycle dispatched a notification of kind k
SentFor(out, k) == \E n \in out : n.kind = k

\* a dict holds a prediction of `day` for the beast
HasPrediction(st, beast, day) ==
    st.event_day[beast] = day /\ st.event_iso[beast] # NoIso

\* the instant a dict predicts for the beast
PredictedInstant(st, beast) == FromIsoFormat(st.event_iso[beast])

----------------------------------------------------------------------------
(* C1 *)

\* C1: among the notifications sent by completed cycles, no (kind, threshold)
\* pair of a countdown kind occurs twice on one calendar day.
C1_OncePerDay ==
    \A k \in Beasts : \A i, j \in DOMAIN fired[k] :
        (/\ i < j
         /\ fired[k][i].saved /\ fired[k][j].saved
         /\ fired[k][i].day = fired[k][j].day)
        => fired[k][i].thr # fired[k][j].thr

\* C1 witness: two thresholds of a kind were notified today by completed
\* cycles, and a later completed cycle whose countdown replaced the prediction
\* by one at or below one of them sent nothing for the kind.
C1_Witness ==
    \E k \in Beasts : \E i, j \in DOMAIN fired[k] :
        /\ Completed
        /\ i # j
        /\ fired[k][i].saved /\ fired[k][i].day = Today
        /\ fired[k][j].saved /\ fired[k][j].day = Today
        /\ SecOf(inp, k) # None /\ SecOf(inp, k) > 0
        /\ HasPrediction(state, k, Today)
        /\ PredictedInstant(state, k) - now > 0
        /\ PredictedInstant(state, k) - now <= fired[k][i].thr
        /\ PredictedInstant(state, k) - now > fired[k][j].thr
        /\ ~SentFor(sent, k)

----------------------------------------------------------------------------
(* C3 *)

SamePages(p, q) ==
    p.dragon = q.dragon /\ p.serpent = q.serpent /\ p.cards = q.cards

\* C3: a completed cycle run again with the same pages and the same clock,
\* from the state the first one saved, sends nothing and leaves the state
\* file as it was.
C3_Idempotent ==
    [][(/\ Completed /\ Completed'
        /\ now' = now
        /\ SamePages(inp', inp))
       => (sent' = {} /\ state_file' = state_file)]_vars

\* C3 witness: the second of two cycles was a re-run, at the same clock, of a
\* first cycle that notified a dragon threshold and the boss and saved.
C3_Witness ==
    /\ cycles = 2 /\ Completed /\ inp.step = 0
    /\ \E k \in Kinds : Len(fired[k]) = 1 /\ fired[k][1].saved
    /\ sent = {}

----------------------------------------------------------------------------
(* C4 *)

\* seconds_left of a beast in the cycle that produced the dict st at clock t
SecLeft(st, beast, t) == PredictedInstant(st, beast) - t

\* the last cycle computed a positive seconds_left for the beast
Scheduled(page, st, beast, t, n) ==
    /\ n > 0 /\ page.fail # "monastic"
    /\ SecOf(page, beast) # None /\ SecOf(page, beast) > 0
    /\ SecLeft(st, beast, t) > 0

\* the notifications of one kind among those a cycle sent
Of(out, k) == {n \in out : n.kind = k}

\* C4 as claimed: the smallest threshold >= seconds_left among those not yet
\* marked today is notified and marked; a marked smallest threshold makes the
\* next larger unmarked one the selected one.
C4_Claim ==
    [][\A b \in Beasts :
         Scheduled(inp', state', b, now', cycles') =>
           LET sl == SecLeft(state', b, now')
               unsent == {t \in ThrSet :
                            /\ t >= sl
                            /\ LoadState(state_file).thr[b][t] # Today'}
           IN  IF unsent = {} THEN Of(sent', b) = {}
               ELSE /\ Of(sent', b) =
                         {[kind |-> b, thr |-> SetMin(unsent), sec_left |-> sl]}
                    /\ state'.thr[b][SetMin(unsent)] = Today']_vars

\* C4 amended: the smallest threshold >= seconds_left is the only one
\* considered: it is notified and marked when it is not marked today, and
\* nothing is sent for the kind, and no marker changes, when it is.
C4_SmallestDueOnly ==
    [][\A b \in Beasts :
         Scheduled(inp', state', b, now', cycles') =>
           LET sl == SecLeft(state', b, now')
               due == {t \in ThrSet : t >= sl}
               before == LoadState(state_file).thr[b]
           IN  IF due # {} /\ before[SetMin(due)] # Today'
               THEN /\ Of(sent', b) =
                         {[kind |-> b, thr |-> SetMin(due), sec_left |-> sl]}
                    /\ state'.thr[b] = [before EXCEPT ![SetMin(due)] = Today']
               ELSE /\ Of(sent', b) = {}
                    /\ state'.thr[b] = before]_vars

\* C4 witness: the smallest threshold >= seconds_left is marked today, a larger
\* one is not, and the cycle sent nothing for the kind.
C4_Witness ==
    \E b \in Beasts :
        /\ Scheduled(inp, state, b, now, cycles)
        /\ LET due == {t \in ThrSet : t >= SecLeft(state, b, now)}
           IN  /\ due # {}
               /\ state.thr[b][SetMin(due)] = Today
               /\ \E t \in due : state.thr[b][t] # Today
        /\ Of(sent, b) = {}

----------------------------------------------------------------------------
(* C5 *)

\* the boss notification is due at clock t for a dict st and an events page
LordDue(st, cards, t) ==
    LET merc == MercLordBlock(cards, DateOf(t))
    IN  /\ merc.when_iso # NoIso
        /\ st.lord # DateOf(t)
        /\ FromIsoFormat(merc.when_iso) + Hour - t > 0

\* C5 as claimed: a cycle whose /monastic fetch fails still fetches and
\* schedules the boss page, and a cycle whose /events fetch fails keeps what
\* it did for dragon and serpent.
C5_Claim ==
    /\ (cycles > 0 /\ inp.fail = "monastic" /\ LordDue(state, inp.cards, now))
          => (Of(sent, "lord") # {} /\ state_file.json.lord = Today)
    /\ (cycles > 0 /\ inp.fail = "events")
          => (/\ state_file.exists
              /\ state_file.json.event_day = state.event_day
              /\ state_file.json.event_iso = state.event_iso
              /\ state_file.json.thr = state.thr)

----------------------------------------------------------------------------
(* C6 *)

\* C6 as claimed: a (kind, threshold) notified by a cycle, whether or not the
\* cycle reached its end, is not notified again that day, and a cycle that
\* aborts leaves the state file as it was.
C6_Claim ==
    [][/\ \A k \in Beasts : \A i, j \in DOMAIN fired'[k] :
            (i < j /\ fired'[k][i].day = fired'[k][j].day)
            => fired'[k][i].thr # fired'[k][j].thr
       /\ (inp'.fail # "none" => state_file' = state_file)]_vars

----------------------------------------------------------------------------
(* C7 *)

\* C7: whatever a cycle sends for a kind, that kind's predicted instant (the
\* stored prediction of a beast, the boss timestamp plus one hour) is
\* strictly after the cycle's clock.
C7_NoLateNotification ==
    /\ \A b \in Beasts :
         Of(sent, b) # {} =>
           /\ HasPrediction(state, b, Today)
           /\ SecLeft(state, b, now) > 0
           /\ \A n \in Of(sent, b) : n.sec_left = SecLeft(state, b, now)
    /\ Of(sent, "lord") # {} =>
         LET merc == MercLordBlock(inp.cards, Today)
         IN  /\ merc.when_iso # NoIso
             /\ FromIsoFormat(merc.when_iso) + Hour - now > 0

\* C7 witness: a cycle was given a positive dragon countdown while the
\* prediction it kept for today was already past, with a threshold of the day
\* still unsent, and sent nothing for the dragon.
C7_Witness ==
    /\ LoopRan
    /\ inp.dragon # None /\ inp.dragon > 0
    /\ HasPrediction(state, "dragon", Today)
    /\ SecLeft(state, "dragon", now) <= 0
    /\ \E t \in ThrSet : state.thr["dragon"][t] # Today
    /\ Of(sent, "dragon") = {}

----------------------------------------------------------------------------
(* C9 *)

\* C9: in a cycle given a positive countdown for a beast, the dict's
\* prediction becomes round_to_minute(now + countdown) dated today when none
\* was recorded for today or the recorded one differs from it by 120 s or
\* more, and stays what it was otherwise; without a positive countdown it
\* stays what it was; the state file's prediction is the old one or the dict's.
C9_Reconciliation ==
    [][\A b \in Beasts :
         LET before == LoadState(state_file)
             sec == SecOf(inp', b)
             proposed == RoundToMinute(now' + sec)
             kept == /\ state'.event_day[b] = before.event_day[b]
                     /\ state'.event_iso[b] = before.event_iso[b]
             adopted == /\ state'.event_day[b] = Today'
                        /\ PredictedInstant(state', b) = proposed
         IN  /\ IF cycles' > cycles /\ inp'.fail # "monastic"
                   /\ sec # None /\ sec > 0
                THEN IF ~HasPrediction(before, b, Today') THEN adopted
                     ELSE IF Abs(PredictedInstant(before, b) - proposed) < 120
                          THEN kept
                          ELSE adopted
                ELSE kept
             /\ \/ /\ state_file'.json.event_day[b] = before.event_day[b]
                   /\ state_file'.json.event_iso[b] = before.event_iso[b]
                \/ /\ state_file'.json.event_day[b] = state'.event_day[b]
                   /\ state_file'.json.event_iso[b] = state'.event_iso[b]]_vars

\* C9 witness: a cycle kept today's prediction although the proposed instant
\* differed from it.
C9_Witness ==
    \E b \in Beasts :
        /\ LoopRan
        /\ SecOf(inp, b) # None /\ SecOf(inp, b) > 0
        /\ HasPrediction(state, b, Today)
        /\ PredictedInstant(state, b) # RoundToMinute(now + SecOf(inp, b))

----------------------------------------------------------------------------
(* C2 *)

\* C2 as claimed: over the polls of one occurrence, each threshold of a kind
\* is notified at most once, also when the polls fall on two calendar days.
C2_Claim ==
    \A k \in Beasts : \A i, j \in DOMAIN fired[k] :
        i < j => fired[k][i].thr # fired[k][j].thr

----------------------------------------------------------------------------
(* C8 *)

\* C8 as claimed: with T recorded for today, a countdown implying T + 90 s
\* leaves the prediction T and one implying T + 130 s replaces it.
C8_Claim ==
    [][\A b \in Beasts :
         LET before == LoadState(state_file)
             sec == SecOf(inp', b)
             T == PredictedInstant(before, b)
         IN  (/\ cycles' > cycles /\ inp'.fail # "monastic"
              /\ sec # None /\ sec > 0
              /\ HasPrediction(before, b, Today'))
             => /\ now' + sec = T + 90 => PredictedInstant(state', b) = T
                /\ now' + sec = T + 130 => PredictedInstant(state', b) # T]_vars

\* C8 amended: the implied arrival is rounded to the minute before it is
\* compared with T: a countdown implying T + 89 s leaves the prediction T,
\* one implying T + 90 s or T + 130 s replaces it by T + 120 s.
C8_DriftAfterRounding ==
    [][\A b \in Beasts :
         LET before == LoadState(state_file)
             sec == SecOf(inp', b)
             T == PredictedInstant(before, b)
         IN  (/\ cycles' > cycles /\ inp'.fail # "monastic"
              /\ sec # None /\ sec > 0
              /\ HasPrediction(before, b, Today'))
             => /\ now' + sec = T + 89 =>
                     /\ PredictedInstant(state', b) = T
                     /\ state'.event_day[b] = Today'
                /\ now' + sec \in {T + 90, T + 130} =>
                     /\ PredictedInstant(state', b) = T + 120
                     /\ state'.event_day[b] = Today']_vars

\* C8 witness: a cycle whose countdown implied T + 89 s kept T, recorded by
\* an earlier cycle.
C8_Witness ==
    \E b \in Beasts :
        /\ cycles >= 2 /\ LoopRan
        /\ SecOf(inp, b) # None /\ SecOf(inp, b) > 0
        /\ HasPrediction(state, b, Today)
        /\ now + SecOf(inp, b) = PredictedInstant(state, b) + 89

----------------------------------------------------------------------------
(* C10 *)

\* C10: over the polls of one occurrence, the thresholds notified for a kind
\* on one day come in strictly decreasing order.
C10_IncreasingUrgency ==
    \A k \in Beasts : \A i, j \in DOMAIN fired[k] :
        (i < j /\ fired[k][i].day = fired[k][j].day)
        => fired[k][i].thr > fired[k][j].thr

\* C10 witness: three thresholds of a kind were notified on one day.
C10_Witness ==
    \E k \in Beasts :
        /\ Len(fired[k]) = 3
        /\ \A i \in DOMAIN fired[k] : fired[k][i].day = Today

----------------------------------------------------------------------------
(* C11 *)

\* how many times a threshold of a kind was notified on a day
Notified(log, k, day, thr) ==
    Cardinality({i \in DOMAIN log[k] : log[k][i].day = day /\ log[k][i].thr = thr})

\* two consecutive cycles of one day computed seconds_left above thr, then at
\* or below it
Crossed(b, thr) ==
    /\ Scheduled(inp, state, b, now, cycles)
    /\ Scheduled(inp', state', b, now', cycles')
    /\ Today' = Today
    /\ SecLeft(state, b, now) > thr
    /\ SecLeft(state', b, now') <= thr

----------------------------------------------------------------------------
(* C12 *)

\* no marker of the beast is today's in the dict st
Unmarked(st, b, day) == \A t \in MarkerThresholds : st.thr[b][t] # day

\* C12: in a cycle that computes seconds_left > 0 for a beast none of whose
\* markers is today's, the threshold notified is the least member of the
\* list that is >= seconds_left, whatever the order of the list, and nothing
\* is notified for the beast when no member is >= seconds_left.
C12_MinimumDue ==
    [][\A b \in Beasts :
         (/\ Scheduled(inp', state', b, now', cycles')
          /\ Unmarked(LoadState(state_file), b, Today'))
         => LET sl == SecLeft(state', b, now')
                due == {t \in Range(thresholds') : t >= sl}
            IN  IF due = {} THEN Of(sent', b) = {}
                ELSE Of(sent', b) =
                       {[kind |-> b, thr |-> SetMin(due), sec_left |-> sl]}]_vars

\* C12 witness: called with [5400, 2400, 120] and no marker set, a cycle that
\* computed seconds_left = 2300 notified threshold 2400.
C12_Witness ==
    /\ cycles = 1
    /\ thresholds = <<5400, 2400, 120>>
    /\ Scheduled(inp, state, "dragon", now, cycles)
    /\ SecLeft(state, "dragon", now) = 2300
    /\ Of(sent, "dragon") = {[kind |-> "dragon", thr |-> 2400, sec_left |-> 2300]}

\* C12 witness for the empty case: seconds_left exceeds every threshold of
\* the list and nothing was notified.
C12_WitnessNone ==
    /\ cycles = 1
    /\ Scheduled(inp, state, "dragon", now, cycles)
    /\ \A t \in Range(thresholds) : t < SecLeft(state, "dragon", now)
    /\ sent = {}

----------------------------------------------------------------------------
(* C13 *)

\* the events page shows a boss card of the day of t whose battle (its
\* timestamp plus one hour) is after t
FutureBoss(cards, t) ==
    LET merc == MercLordBlock(cards, DateOf(t))
    IN  /\ merc.when_iso # NoIso
        /\ FromIsoFormat(merc.when_iso) + Hour - t > 0

\* C13 as claimed: at most one boss notification is sent on a calendar day,
\* and a completed cycle that extracts a boss timestamp of today whose battle
\* is still to come sends the boss notification unless one was sent earlier
\* that day.
C13_Claim ==
    [][/\ Notified(fired', "lord", Today', None) <= 1
       /\ (/\ cycles' > cycles /\ inp'.fail = "none"
           /\ FutureBoss(inp'.cards, now')
           /\ Notified(fired, "lord", Today', None) = 0)
          => Of(sent', "lord") # {}]_vars

----------------------------------------------------------------------------
(* C20 *)

\* the events page shows a boss card of the day of t whose battle is not
\* after t
PastBoss(cards, t) ==
    LET merc == MercLordBlock(cards, DateOf(t))
    IN  /\ merc.when_iso # NoIso
        /\ FromIsoFormat(merc.when_iso) + Hour - t <= 0

\* C20: a completed cycle that extracts a boss timestamp whose battle is
\* already past, the marker "lord" not being today's, sets the marker to
\* today and sends nothing for the boss; and a cycle that finds the marker
\* set to today sends nothing for the boss and leaves the marker set,
\* whatever boss timestamp it extracts.
C20_MarkedWithoutSend ==
    [][/\ (/\ cycles' > cycles /\ inp'.fail = "none"
           /\ PastBoss(inp'.cards, now')
           /\ LoadState(state_file).lord # Today')
          => /\ Of(sent', "lord") = {}
             /\ state'.lord = Today'
             /\ state_file'.json.lord = Today'
       /\ (cycles' > cycles /\ LoadState(state_file).lord = Today')
          => /\ Of(sent', "lord") = {}
             /\ LoadState(state_file').lord = Today']_vars

\* C20 witness: the marker was set today by a cycle that sent nothing, and
\* the last cycle, which extracted a boss timestamp of today whose battle is
\* still to come, sent nothing for the boss.
C20_Witness ==
    /\ Completed
    /\ FutureBoss(inp.cards, now)
    /\ state.lord = Today
    /\ Notified(fired, "lord", Today, None) = 0
    /\ Of(sent, "lord") = {}

----------------------------------------------------------------------------
(* C14 *)

\* the boss cards of a page that carry a timestamp of the day
BossCardsOf(cards, day) ==
    {i \in DOMAIN cards :
        cards[i].lord /\ cards[i].when # None /\ DateOf(cards[i].when) = day}

\* C14 as claimed: the extractor returns the latest timestamp among the boss
\* cards dated today, whether or not their body names a known city, and
\* reports the boss absent only when no boss card is dated today.
C14_Claim ==
    Completed =>
      LET todays == BossCardsOf(inp.cards, Today)
          merc == MercLordBlock(inp.cards, Today)
      IN  IF todays = {} THEN merc.when_iso = NoIso
          ELSE merc.when_iso =
                 IsoFormat(SetMax({inp.cards[i].when : i \in todays}))

----------------------------------------------------------------------------
(* C15 *)

\* the marker of a dispatched notification in a dict
MarkerOf(st, n) == IF n.kind = "lord" THEN st.lord ELSE st.thr[n.kind][n.thr]

\* a tg_send call of the day for (kind, thr) reached no recipient
Undelivered(log, k, thr, day) ==
    \E i \in DOMAIN log[k] :
        /\ log[k][i].day = day /\ log[k][i].thr = thr
        /\ \A cid \in ChatIds : ~log[k][i].ok[cid]

\* C15: whatever the tg_send calls return, each notification a cycle
\* dispatches has its marker set to today in the cycle's dict and in the
\* saved file, each dispatch is one tg_send call, and no (kind, threshold),
\* nor the boss, is dispatched a second time on the day.
C15_MarkedOnAttempt ==
    [][/\ \A n \in sent' :
            /\ MarkerOf(state', n) = Today'
            /\ MarkerOf(state_file'.json, n) = Today'
       /\ \A k \in Kinds :
            Len(results'[k]) =
              Len(results[k]) + (IF Of(sent', k) = {} THEN 0 ELSE 1)
       /\ \A k \in Kinds : \A thr \in MarkerThresholds \cup {None} :
            Notified(fired', k, Today', thr) <= 1]_vars

\* C15 witness: a dispatch of the day reached no recipient after the
\* transport's retries, its marker is set, and the last cycle, for which the
\* same threshold was the one to send, sent nothing for the kind.
C15_Witness ==
    \E thr \in ThrSet :
        /\ Undelivered(results, "dragon", thr, Today)
        /\ Scheduled(inp, state, "dragon", now, cycles)
        /\ thr = SetMin({t \in ThrSet : t >= SecLeft(state, "dragon", now)})
        /\ state.thr["dragon"][thr] = Today
        /\ Of(sent, "dragon") = {}

----------------------------------------------------------------------------
(* C16 *)

\* the usable part of a state file: nothing of a file that is absent,
\* unreadable or not a JSON map, and a map without the predictions that are
\* no timestamps
Usable(file) ==
    IF ~file.exists \/ file.form # "map" THEN EmptyState
    ELSE [file.json EXCEPT
            !.event_day = [b \in Beasts |->
                             IF IsIsoText(file.json.event_iso[b])
                             THEN file.json.event_day[b] ELSE None],
            !.event_iso = [b \in Beasts |->
                             IF IsIsoText(file.json.event_iso[b])
                             THEN file.json.event_iso[b] ELSE NoIso]]

\* C16 as claimed: whatever the state file holds, a cycle whose fetches
\* succeed returns without raising and dispatches what it would dispatch
\* from the usable part of the file, leaving the markers that cycle would
\* leave.
C16_Claim ==
    [][(cycles' > cycles /\ inp'.fail = "none") =>
         LET r == NotifyIfNeeded(SaveState(Usable(state_file)), now', inp',
                                 thresholds')
         IN  /\ raised' = "none"
             /\ sent' = r.sent
             /\ state'.thr = r.state.thr
             /\ state'.lord = r.state.lord]_vars

----------------------------------------------------------------------------
(* C17 *)

\* C17 as claimed: whatever LOOP_SECONDS is, a cycle that raises does not
\* end the process with its exception; in the loop the next pass follows
\* while the deadline has not passed, and main returns once it has.
C17_Claim ==
    [][cycles' > cycles =>
         /\ proc'.pc # "crashed"
         /\ proc.pc = "loop" =>
              IF proc.end_ts - now' > 0 THEN proc'.pc = "loop"
              ELSE proc'.pc = "exited"]_vars

----------------------------------------------------------------------------
(* C18 *)

\* a text of the form H:MM:SS, MM:SS or bare digits: one to three runs of
\* decimal digits separated by single colons
DurationForm(txt) ==
    LET pieces == Split(txt)
    IN  /\ txt # <<>>
        /\ Len(pieces) <= 3
        /\ \A i \in DOMAIN pieces :
             pieces[i] # <<>> /\ \A j \in DOMAIN pieces[i] : IsDecimal(pieces[i][j])

\* the seconds such a text denotes: its runs read from the right as seconds,
\* minutes, hours
RECURSIVE DurationOf(_)
DurationOf(pieces) ==
    IF pieces = <<>> THEN 0
    ELSE DurationOf(SubSeq(pieces, 1, Len(pieces) - 1)) * 60
         + DigitsValue(pieces[Len(pieces)])

\* C18 as claimed: _to_seconds never raises, returns the exact seconds of a
\* text of the form H:MM:SS, MM:SS or bare digits, and returns None for
\* every other text.
C18_Claim ==
    parsed.done =>
      /\ ~parsed.raised
      /\ IF DurationForm(text)
         THEN parsed.value = DurationOf(Split(text))
         ELSE parsed.value = None

\* what of C18 holds of the code: the exact seconds for texts of the form
C18_ExactOnDurations ==
    (parsed.done /\ DurationForm(text))
      => (~parsed.raised /\ parsed.value = DurationOf(Split(text)))

----------------------------------------------------------------------------
(* C19 *)

\* C19: a cycle given no countdown for a beast, or a countdown <= 0, leaves
\* the beast's prediction and markers as it loaded them, in its dict and in
\* the file it saves, and sends nothing for the beast.
C19_MissingCountdownFrame ==
    [][\A b \in Beasts :
         (/\ cycles' > cycles
          /\ (SecOf(inp', b) = None \/ SecOf(inp', b) <= 0)) =>
           LET before == LoadState(state_file)
           IN  /\ Of(sent', b) = {}
               /\ state'.event_day[b] = before.event_day[b]
               /\ state'.event_iso[b] = before.event_iso[b]
               /\ state'.thr[b] = before.thr[b]
               /\ LoadState(state_file').event_day[b] = before.event_day[b]
               /\ LoadState(state_file').event_iso[b] = before.event_iso[b]
               /\ LoadState(state_file').thr[b] = before.thr[b]]_vars

\* C19 witness: the page showed a dragon countdown of 0 while the prediction
\* recorded today was still to come and the smallest threshold at or above
\* its seconds_left was not marked; the cycle sent nothing.
C19_Witness ==
    /\ Completed /\ inp.dragon = 0
    /\ HasPrediction(state, "dragon", Today)
    /\ SecLeft(state, "dragon", now) > 0
    /\ LET due == {t \in Range(thresholds) : t >= SecLeft(state, "dragon", now)}
       IN  due # {} /\ state.thr["dragon"][SetMin(due)] # Today
    /\ sent = {}

====
